---- MODULE Spec2Model ----
(***************************************************************************)
(* The durable task execution core of Autonomous-FTE-System:               *)
(*   ralph_wiggum_engine.py  RalphWiggumEngine (registry, step loop,       *)
(*                           checkpoints, suspend/resume, cleanup)         *)
(*   task_persistence.py     TaskDatabase + TaskPersistenceManager         *)
(*                           (structured store, flat snapshot files)       *)
(*                                                                         *)
(* Spec        the engine: one action per public operation, one per return *)
(*             of an awaited step, a process kill, and the wall clock.     *)
(* SpecRun     the engine with one caller that creates and executes.       *)
(* SpecSuspend the engine with suspend_task and resume_task called while   *)
(*             the step loop runs; every step succeeds.                    *)
(* SpecClock   the engine with interrupts and resume_task, and checkpoints  *)
(*             taken before the clock has moved.                           *)
(* SpecStoreFault  execute_task with checkpoint file writes that raise.     *)
(* SpecTermination  execute_task with every awaited step coming back.       *)
(* SpecNested  checkpoints of a state_data whose values are dicts.          *)
(* SpecPersist the persistence manager over its database and State_Logs.   *)
(* SpecPersistCut  the same with save_task_state calls that are cut short.  *)
(* SpecPersistThreads  save_task_state calls of several threads.           *)
(* SpecRoundTrip  save_task_state and load_task_state, every payload kind.  *)
(* SpecPersistSecond  checkpoints saved within one second of each other.    *)
(***************************************************************************)
EXTENDS Integers, Sequences, FiniteSets, TLC

\* ------------------------------------------------------------------ bounds
NumTasks == 1
NumSteps == 3
MaxInterval == 2
MaxTime == 2
MaxCheckpoints == 3
MaxLoops == 2
MaxThreads == 2
MaxDicts == 2
MaxCounter == 2

\* ------------------------------------------------------- program constants
\* AutonomyTask.__init__: self.max_retries = 3
DefaultMaxRetries == 3
\* None for a datetime field (completed_at, a file's absence of mtime)
NoTime == -1

TaskIds == 1..NumTasks

VARIABLES
    heap,                \* the AutonomyTask objects alive in the process, by reference
    tasks,               \* RalphWiggumEngine.tasks: dict task_id -> AutonomyTask (a reference)
    active_tasks,        \* RalphWiggumEngine.active_tasks: list of task ids
    checkpoint_interval, \* RalphWiggumEngine.checkpoint_interval
    taskFiles,           \* Task_Queues/<task_id>.json: dict task_id -> to_dict()
    checkpointFiles,     \* Checkpoints/<task_id>_checkpoint_<uuid>.json, in write order
    loops,               \* execute_task coroutines suspended at the await of a step
    created,             \* task ids uuid4 has handed out (never handed out twice)
    now,                 \* datetime.now(), in the unit cleanup counts (days)
    stalled,             \* datetime.now() has not moved since the last checkpoint read it
    dbTasks,             \* TaskDatabase table tasks: id -> row
    dbTaskState,         \* TaskDatabase table task_state: task_id -> state_data
    dbCheckpoints,       \* TaskDatabase table checkpoints, in insertion order
    stateFiles,          \* State_Logs/<task_id>_state.json: task_id -> content, mtime
    pklFiles,            \* State_Logs/<task_id>_checkpoint_<step>.pkl: <<id, step>> -> content, mtime
    saves,               \* save_task_state calls of other threads, each before its next write
    dicts,               \* the dict objects a step stores under state_data['data']: reference -> counter
    stateData,           \* task.state_data['data']: a reference into dicts (0: no such key)
    snapshots,           \* data['data'] of the task's checkpoints, in order: references into dicts
    snapshotFiles,       \* data['data'] of the checkpoint files, as _save_checkpoint wrote them
    recordSnapshots      \* data['data'] of the checkpoints in the task record, as _save_task wrote it

engineVars == <<heap, tasks, active_tasks, checkpoint_interval, taskFiles,
                checkpointFiles, loops, created, stalled>>
nestVars == <<dicts, stateData, snapshots, snapshotFiles, recordSnapshots>>
persistVars == <<dbTasks, dbTaskState, dbCheckpoints, stateFiles, pklFiles, saves>>
vars == <<engineVars, now, persistVars, nestVars>>

\* ------------------------------------------------------------- state_data
\* state_data is a dict; an entry is key "step_<idx>_result", "effect_<idx>"
\* or "final_result" (idx 0) with the index of the step that produced the value.
Entry(k, i, v) == [key |-> k, idx |-> i, val |-> v]

\* d[key] = v
Put(d, k, i, v) == {e \in d : ~(e.key = k /\ e.idx = i)} \cup {Entry(k, i, v)}

HasKey(d, k, i) == \E e \in d : e.key = k /\ e.idx = i

\* d.get(key, default), as the entry read (None is the empty set)
Get(d, k, i, default) ==
    IF HasKey(d, k, i) THEN {e \in d : e.key = k /\ e.idx = i}
    ELSE {Entry(default, 0, 0)}

\* What step function i writes into context['state'] before it awaits
\* (example_step_1..3: the state is mutated first, then asyncio.sleep, then return);
\* the last step writes the well-known final_result key (example_step_3).
StepEffect(d, i, n) ==
    LET d1 == Put(d, "effect", i, i)
    IN  IF i = n - 1 THEN Put(d1, "final_result", 0, i) ELSE d1

\* -------------------------------------------------------------- AutonomyTask
NewTask(n) ==
    [ status       |-> "pending",
      nsteps       |-> n,
      current_step |-> 0,
      checkpoints  |-> << >>,
      state_data   |-> {},
      result       |-> {},
      error        |-> "None",
      max_retries  |-> DefaultMaxRetries,
      retry_count  |-> 0,
      completed_at |-> NoTime ]

\* to_dict(): every field but the step functions
ToDict(task) ==
    [ status       |-> task.status,
      current_step |-> task.current_step,
      checkpoints  |-> task.checkpoints,
      state_data   |-> task.state_data,
      result       |-> task.result,
      error        |-> task.error,
      max_retries  |-> task.max_retries,
      retry_count  |-> task.retry_count,
      completed_at |-> task.completed_at ]

\* from_dict(): task.steps = []
FromDict(d) ==
    [ status       |-> d.status,
      nsteps       |-> 0,
      current_step |-> d.current_step,
      checkpoints  |-> d.checkpoints,
      state_data   |-> d.state_data,
      result       |-> d.result,
      error        |-> d.error,
      max_retries  |-> d.max_retries,
      retry_count  |-> d.retry_count,
      completed_at |-> d.completed_at ]

\* dict helpers
DictPut(f, k, v) == [x \in (DOMAIN f) \cup {k} |-> IF x = k THEN v ELSE f[x]]
DictDel(f, S) == [x \in (DOMAIN f) \ S |-> f[x]]

\* list.remove(x) guarded by "if x in list": drops the first occurrence
RECURSIVE ListRemove(_, _)
ListRemove(s, x) ==
    IF s = << >> THEN << >>
    ELSE IF Head(s) = x THEN Tail(s)
    ELSE <<Head(s)>> \o ListRemove(Tail(s), x)

InList(s, x) == \E i \in 1..Len(s) : s[i] = x

\* Removal of the j-th element of a sequence
DropAt(s, j) == [i \in 1..(Len(s) - 1) |-> IF i < j THEN s[i] ELSE s[i + 1]]

\* ------------------------------------------------------------ object heap
\* A reference no live object has
FreshRef == CHOOSE r \in 1..(Cardinality(DOMAIN heap) + 1) : r \notin DOMAIN heap

\* Objects stay alive while the registry or a suspended coroutine refers to them
GC(h, regs, lps) ==
    [r \in {x \in DOMAIN h : \/ \E id \in DOMAIN regs : regs[id] = x
                             \/ \E j \in 1..Len(lps) : lps[j].ref = x} |-> h[r]]

\* "if task_id not in self.tasks: task = self._load_task(task_id)" (found or not)
Known(id) == id \in DOMAIN tasks \/ id \in DOMAIN taskFiles
RefOf(id) == IF id \in DOMAIN tasks THEN tasks[id] ELSE FreshRef
HeapLoaded(id) ==
    IF id \in DOMAIN tasks THEN heap
    ELSE DictPut(heap, FreshRef, FromDict(taskFiles[id]))
TasksLoaded(id) == DictPut(tasks, id, RefOf(id))

\* ------------------------------------------------------------ checkpoints
\* datetime.now() as _save_checkpoint reads it: the reading of the previous
\* checkpoint when the clock has not moved since, else a later one
Max(S) == CHOOSE m \in S : \A x \in S : x <= m

StampsOf(cps) == {cps[i].timestamp : i \in 1..Len(cps)}

LastStamp ==
    Max({0} \cup StampsOf(checkpointFiles)
            \cup UNION {StampsOf(heap[r].checkpoints) : r \in DOMAIN heap}
            \cup UNION {StampsOf(taskFiles[id].checkpoints) : id \in DOMAIN taskFiles})

Timestamp == IF stalled THEN LastStamp ELSE LastStamp + 1

\* _save_checkpoint: TaskCheckpoint(step=task.current_step, data=task.state_data.copy(),
\* timestamp=datetime.now()) appended to task.checkpoints
WithCheckpoint(task) ==
    [task EXCEPT !.checkpoints =
        Append(@, [step |-> task.current_step, data |-> task.state_data,
                   timestamp |-> Timestamp])]

\* ... and written to Checkpoints/<task_id>_checkpoint_<uuid>.json
CheckpointFile(id, task) ==
    [task_id |-> id, step |-> task.current_step, data |-> task.state_data,
     timestamp |-> Timestamp]

\* max(task.checkpoints, key=lambda c: c.timestamp): the first of the latest
LatestCheckpoint(cps) ==
    LET top == CHOOSE m \in {cps[i].timestamp : i \in 1..Len(cps)} :
                   \A i \in 1..Len(cps) : cps[i].timestamp <= m
        first == CHOOSE i \in 1..Len(cps) :
                   /\ cps[i].timestamp = top
                   /\ \A k \in 1..(i - 1) : cps[k].timestamp # top
    IN  cps[first]

\* _restore_from_checkpoint, then resume_task's status = IN_PROGRESS;
\* without a checkpoint resume_task restarts from step 0
Restored(task) ==
    IF task.checkpoints # << >>
    THEN [task EXCEPT !.current_step = LatestCheckpoint(task.checkpoints).step,
                      !.state_data = LatestCheckpoint(task.checkpoints).data,
                      !.status = "in_progress"]
    ELSE [task EXCEPT !.current_step = 0, !.status = "in_progress"]

\* ------------------------------------------------------------ the step loop
\* What one pass of execute_task does up to its next await or its return:
\*   task     the task object afterwards
\*   inflight the coroutine is suspended inside step fn
\*   save     _save_task was called
\*   files    checkpoint files written
\*   drop     task_id removed from active_tasks
\*   value    the return value when the call ended
Outcome(task, inflight, fn, save, files, drop, value) ==
    [task |-> task, inflight |-> inflight, fn |-> fn, save |-> save,
     files |-> files, drop |-> drop, value |-> value]

\* "while task.current_step < len(task.steps)": invoke the step, or complete
LoopTop(task, files) ==
    IF task.current_step < task.nsteps
    THEN Outcome([task EXCEPT !.state_data =
                      StepEffect(@, task.current_step, task.nsteps)],
                 TRUE, task.current_step, FALSE, files, FALSE, "pending")
    ELSE Outcome([task EXCEPT !.status = "completed",
                              !.completed_at = now,
                              !.result = Get(task.state_data, "final_result", 0,
                                             "Task completed successfully")],
                 FALSE, 0, TRUE, files, TRUE, "True")

\* The step returned a result: store it, checkpoint periodically, advance
StepSucceeded(id, task, fn, K) ==
    LET t1 == [task EXCEPT !.state_data =
                   Put(@, "step_result", task.current_step, fn)]
        due == (t1.current_step + 1) % K = 0
        t2 == IF due THEN WithCheckpoint(t1) ELSE t1
        files == IF due THEN <<CheckpointFile(id, t1)>> ELSE << >>
        t3 == [t2 EXCEPT !.current_step = @ + 1]
    IN  LoopTop(t3, files)

\* "if (task.current_step + 1) % self.checkpoint_interval == 0"
CheckpointDue(task, K) == (task.current_step + 1) % K = 0

\* The step returned a result and the periodic checkpoint is due, but writing
\* the checkpoint file raises: _save_checkpoint has appended the checkpoint to
\* task.checkpoints already, and the exception lands in the "except Exception"
\* of the inner try like an exception of the step
StepSucceededWriteFails(id, task, fn, K) ==
    LET t1 == [task EXCEPT !.state_data =
                   Put(@, "step_result", task.current_step, fn)]
        t2 == [WithCheckpoint(t1) EXCEPT !.error = "store_error"]
    IN  IF t2.retry_count < t2.max_retries
        THEN LoopTop([t2 EXCEPT !.retry_count = @ + 1], << >>)
        ELSE Outcome([t2 EXCEPT !.status = "failed"],
                     FALSE, 0, TRUE, << >>, FALSE, "False")

\* "except Exception" of the inner try that, past step 0, starts the task over
\* instead of counting a retry
StepFailed_StartsOver(task) ==
    LET t1 == [task EXCEPT !.error = "step_error"]
    IN  IF t1.current_step > 0 THEN LoopTop([t1 EXCEPT !.current_step = 0], << >>)
        ELSE IF t1.retry_count < t1.max_retries
        THEN LoopTop([t1 EXCEPT !.retry_count = @ + 1], << >>)
        ELSE Outcome([t1 EXCEPT !.status = "failed"],
                     FALSE, 0, TRUE, << >>, FALSE, "False")

\* "except Exception" of the inner try that marks the task failed without
\* saving it
StepFailed_NoSave(task) ==
    LET t1 == [task EXCEPT !.error = "step_error"]
    IN  IF t1.retry_count < t1.max_retries
        THEN LoopTop([t1 EXCEPT !.retry_count = @ + 1], << >>)
        ELSE Outcome([t1 EXCEPT !.status = "failed"],
                     FALSE, 0, FALSE, << >>, FALSE, "False")

\* The step raised: "except Exception" of the inner try
StepFailed(task) ==
    LET t1 == [task EXCEPT !.error = "step_error"]
    IN  IF t1.retry_count < t1.max_retries
        THEN LoopTop([t1 EXCEPT !.retry_count = @ + 1], << >>)
        ELSE Outcome([t1 EXCEPT !.status = "failed"],
                     FALSE, 0, TRUE, << >>, FALSE, "False")

\* "except KeyboardInterrupt" that saves the task without a checkpoint
StepInterrupted_NoCheckpoint(id, task) ==
    Outcome([task EXCEPT !.status = "interrupted"], FALSE, 0, TRUE, << >>, FALSE,
            "False")

\* KeyboardInterrupt raised inside the loop: "except KeyboardInterrupt"
StepInterrupted(id, task) ==
    LET t1 == [task EXCEPT !.status = "interrupted"]
    IN  Outcome(WithCheckpoint(t1), FALSE, 0, TRUE,
                <<CheckpointFile(id, t1)>>, FALSE, "False")

\* The state after a pass of the loop of coroutine j (j = 0: a new coroutine)
Commit(id, ref, h, regs, act, o, j) ==
    LET calls == IF j # 0 /\ loops[j].fn = o.fn THEN loops[j].calls + 1 ELSE 1
        me == [task_id |-> id, ref |-> ref, fn |-> o.fn, calls |-> calls]
        lps == IF o.inflight
               THEN (IF j = 0 THEN Append(loops, me) ELSE [loops EXCEPT ![j] = me])
               ELSE (IF j = 0 THEN loops ELSE DropAt(loops, j))
    IN  /\ Len(checkpointFiles \o o.files) <= MaxCheckpoints
        /\ loops' = lps
        /\ tasks' = regs
        /\ heap' = GC(DictPut(h, ref, o.task), regs, lps)
        /\ taskFiles' = IF o.save THEN DictPut(taskFiles, id, ToDict(o.task))
                        ELSE taskFiles
        /\ checkpointFiles' = checkpointFiles \o o.files
        /\ stalled' = IF o.files # << >> THEN FALSE ELSE stalled
        /\ active_tasks' = IF o.drop /\ InList(act, id) THEN ListRemove(act, id)
                           ELSE act
        /\ UNCHANGED <<checkpoint_interval, created, now, persistVars, nestVars>>

\* A call that returns at once, having at most loaded the task into the registry
Returns(h, regs) ==
    /\ tasks' = regs
    /\ heap' = h
    /\ UNCHANGED <<active_tasks, checkpoint_interval, taskFiles, checkpointFiles,
                   loops, created, now, stalled, persistVars, nestVars>>

\* ------------------------------------------------------------- operations
\* create_task
CreateTask(id) ==
    /\ id \notin created
    /\ LET task == NewTask(NumSteps)
       IN  /\ heap' = DictPut(heap, FreshRef, task)
           /\ tasks' = DictPut(tasks, id, FreshRef)
           /\ taskFiles' = DictPut(taskFiles, id, ToDict(task))
    /\ created' = created \cup {id}
    /\ UNCHANGED <<active_tasks, checkpoint_interval, checkpointFiles, loops, now,
                   stalled, persistVars, nestVars>>

\* execute_task up to its first await: the task as the step loop is entered
\* ("Mark as started if not already")
Started(task) ==
    IF task.status = "pending" THEN [task EXCEPT !.status = "in_progress"] ELSE task

ExecuteOutcome(id) == LoopTop(Started(HeapLoaded(id)[RefOf(id)]), << >>)

\* What execute_task(id) returns when called now ("pending": it is awaiting a step)
ExecuteTaskReturn(id) ==
    IF ~Known(id) THEN "False"
    ELSE LET task == HeapLoaded(id)[RefOf(id)]
         IN  IF task.status = "completed" THEN "True"
             ELSE IF task.status = "failed" THEN "False"
             ELSE ExecuteOutcome(id).value

\* execute_task without its "already completed / failed" early return
ExecuteTask_NoEarlyReturn(id) ==
    \/ /\ ~Known(id)
       /\ Returns(heap, tasks)
    \/ /\ Known(id)
       /\ Len(loops) < MaxLoops
       /\ \A j \in 1..Len(loops) : loops[j].task_id # id
       /\ Commit(id, RefOf(id), HeapLoaded(id), TasksLoaded(id),
                 IF HeapLoaded(id)[RefOf(id)].status = "pending"
                 THEN Append(active_tasks, id) ELSE active_tasks,
                 ExecuteOutcome(id), 0)

\* execute_task from its entry to the first await (or to its return); the caller
\* does not enter the step loop of a task that has a step in flight
ExecuteTask(id) ==
    \/ /\ ~Known(id)
       /\ Returns(heap, tasks)
    \/ /\ Known(id)
       /\ HeapLoaded(id)[RefOf(id)].status \in {"completed", "failed"}
       /\ Returns(HeapLoaded(id), TasksLoaded(id))
    \/ /\ Known(id)
       /\ HeapLoaded(id)[RefOf(id)].status \notin {"completed", "failed"}
       /\ Len(loops) < MaxLoops
       /\ \A j \in 1..Len(loops) : loops[j].task_id # id
       /\ Commit(id, RefOf(id), HeapLoaded(id), TasksLoaded(id),
                 IF HeapLoaded(id)[RefOf(id)].status = "pending"
                 THEN Append(active_tasks, id) ELSE active_tasks,
                 ExecuteOutcome(id), 0)

\* The awaited step of coroutine j returns ("ok"), raises ("raise"), is cut by
\* KeyboardInterrupt ("interrupt"), or returns before a checkpoint write that
\* raises ("store_error"); the loop then runs on to its next await or to the
\* end of execute_task
StepOutcome(j, how) ==
    LET l == loops[j]
        task == heap[l.ref]
    IN  CASE how = "ok" -> StepSucceeded(l.task_id, task, l.fn, checkpoint_interval)
          [] how = "raise" -> StepFailed(task)
          [] how = "store_error" ->
                StepSucceededWriteFails(l.task_id, task, l.fn, checkpoint_interval)
          [] OTHER -> StepInterrupted(l.task_id, task)

StepReturns(j, how) ==
    /\ j \in 1..Len(loops)
    /\ how = "store_error" => CheckpointDue(heap[loops[j].ref], checkpoint_interval)
    /\ Commit(loops[j].task_id, loops[j].ref, heap, tasks, active_tasks,
              StepOutcome(j, how), j)

\* suspend_task without its "is not currently running" check
SuspendTaskReturn_NoStatusCheck(id) ==
    IF id \notin DOMAIN tasks THEN "False"
    ELSE "True"

\* suspend_task
SuspendTaskReturn(id) ==
    IF id \notin DOMAIN tasks THEN "False"
    ELSE IF heap[tasks[id]].status # "in_progress" THEN "False"
    ELSE "True"

SuspendTask(id) ==
    \/ /\ SuspendTaskReturn(id) = "False"
       /\ Returns(heap, tasks)
    \/ /\ SuspendTaskReturn(id) = "True"
       /\ Len(checkpointFiles) < MaxCheckpoints
       /\ LET t1 == [heap[tasks[id]] EXCEPT !.status = "suspended"]
              t2 == WithCheckpoint(t1)
          IN  /\ heap' = DictPut(heap, tasks[id], t2)
              /\ taskFiles' = DictPut(taskFiles, id, ToDict(t2))
              /\ checkpointFiles' = Append(checkpointFiles, CheckpointFile(id, t1))
              /\ stalled' = FALSE
       /\ active_tasks' = IF InList(active_tasks, id)
                          THEN ListRemove(active_tasks, id) ELSE active_tasks
       /\ UNCHANGED <<tasks, checkpoint_interval, loops, created, now, persistVars, nestVars>>

\* resume_task, through the execute_task it awaits, up to the first await
ResumeAccepted(id) ==
    /\ Known(id)
    /\ HeapLoaded(id)[RefOf(id)].status \in {"interrupted", "suspended"}

ResumeOutcome(id) == LoopTop(Restored(HeapLoaded(id)[RefOf(id)]), << >>)

\* What resume_task(id) returns when called now
ResumeTaskReturn(id) ==
    IF ResumeAccepted(id) THEN ResumeOutcome(id).value ELSE "False"

ResumeTask(id) ==
    /\ Len(loops) < MaxLoops
    /\ \/ /\ ~Known(id)
          /\ Returns(heap, tasks)
       \/ /\ Known(id)
          /\ ~ResumeAccepted(id)
          /\ Returns(HeapLoaded(id), TasksLoaded(id))
       \/ /\ ResumeAccepted(id)
          /\ Commit(id, RefOf(id), HeapLoaded(id), TasksLoaded(id), active_tasks,
                    ResumeOutcome(id), 0)

\* get_task_status
GetTaskStatusReturn(id) ==
    IF ~Known(id) THEN [found |-> FALSE, status |-> "None", current_step |-> 0,
                        total_steps |-> 0, error |-> "None"]
    ELSE LET task == HeapLoaded(id)[RefOf(id)]
         IN  [found |-> TRUE, status |-> task.status,
              current_step |-> task.current_step, total_steps |-> task.nsteps,
              error |-> task.error]

GetTaskStatus(id) ==
    \/ /\ ~Known(id)
       /\ Returns(heap, tasks)
    \/ /\ Known(id)
       /\ Returns(HeapLoaded(id), TasksLoaded(id))

\* list_active_tasks
ListActiveTasks ==
    SelectSeq(active_tasks, LAMBDA id : id \in DOMAIN tasks)

\* cleanup_completed_tasks(days_old)
ToRemove(days_old) ==
    {id \in DOMAIN tasks :
        /\ heap[tasks[id]].status = "completed"
        /\ heap[tasks[id]].completed_at # NoTime
        /\ heap[tasks[id]].completed_at < now - days_old}

\* the registry and the Task_Queues files as the call leaves them
CleanedTasks(days_old) == DictDel(tasks, ToRemove(days_old))
CleanedFiles(days_old) == DictDel(taskFiles, ToRemove(days_old))

CleanupCompletedTasks(days_old) ==
    /\ tasks' = CleanedTasks(days_old)
    /\ heap' = GC(heap, tasks', loops)
    /\ taskFiles' = CleanedFiles(days_old)
    /\ UNCHANGED <<active_tasks, checkpoint_interval, checkpointFiles, loops,
                   created, now, stalled, persistVars, nestVars>>

\* The caller hands the step functions to a task that from_dict left without
\* any ("Functions need to be reconstructed separately")
ResupplySteps(id) ==
    /\ id \in DOMAIN tasks
    /\ heap[tasks[id]].nsteps = 0
    /\ heap' = [heap EXCEPT ![tasks[id]].nsteps = NumSteps]
    /\ UNCHANGED <<tasks, active_tasks, checkpoint_interval, taskFiles,
                   checkpointFiles, loops, created, now, stalled, persistVars, nestVars>>

\* The process is killed and started again: only the files survive
Restart ==
    /\ DOMAIN tasks # {} \/ loops # << >>
    /\ heap' = << >>
    /\ tasks' = << >>
    /\ active_tasks' = << >>
    /\ loops' = << >>
    /\ stalled' = FALSE
    /\ UNCHANGED <<checkpoint_interval, taskFiles, checkpointFiles, created, now,
                   persistVars, nestVars>>

\* The next _save_checkpoint comes before the clock has moved on from the
\* reading the last one took (the clock's resolution is finite)
ClockStalls ==
    /\ ~stalled
    /\ checkpointFiles # << >>
    /\ stalled' = TRUE
    /\ UNCHANGED <<heap, tasks, active_tasks, checkpoint_interval, taskFiles,
                   checkpointFiles, loops, created, now, persistVars, nestVars>>

\* Wall-clock time passes
Tick ==
    /\ now < MaxTime
    /\ now' = now + 1
    /\ UNCHANGED <<engineVars, persistVars, nestVars>>

EngineInit ==
    /\ heap = << >>
    /\ tasks = << >>
    /\ active_tasks = << >>
    /\ checkpoint_interval \in 1..MaxInterval
    /\ taskFiles = << >>
    /\ checkpointFiles = << >>
    /\ loops = << >>
    /\ created = {}
    /\ stalled = FALSE

Outcomes == {"ok", "raise", "interrupt"}

EngineNext ==
    \/ \E id \in TaskIds : CreateTask(id)
    \/ \E id \in TaskIds : ExecuteTask(id)
    \/ \E j \in 1..MaxLoops, how \in Outcomes : StepReturns(j, how)
    \/ \E id \in TaskIds : SuspendTask(id)
    \/ \E id \in TaskIds : ResumeTask(id)
    \/ \E id \in TaskIds : GetTaskStatus(id)
    \/ \E d \in 0..MaxTime : CleanupCompletedTasks(d)
    \/ \E id \in TaskIds : ResupplySteps(id)
    \/ Restart
    \/ Tick

\* ------------------------------------------- nested values in state_data
\* _execute_step hands task.state_data itself to the step (context['state']);
\* what a step stores in it may be a dict of its own, which later steps change
\* in place.

\* The value a reference stands for when it is serialised (no key: nothing)
Resolve(ref) == IF ref = 0 THEN {} ELSE {dicts[ref]}

\* example_step_1: context['state']['data'] = {"items": [], "counter": 0}
ExampleStep1 ==
    /\ Cardinality(DOMAIN dicts) < MaxDicts
    /\ LET ref == Cardinality(DOMAIN dicts) + 1
       IN  /\ dicts' = DictPut(dicts, ref, 0)
           /\ stateData' = ref
    /\ UNCHANGED <<engineVars, now, persistVars, snapshots, snapshotFiles,
                   recordSnapshots>>

\* example_step_2: context['state']['data']['counter'] += 1 (and the item appended)
ExampleStep2 ==
    /\ stateData # 0
    /\ dicts[stateData] < MaxCounter
    /\ dicts' = [dicts EXCEPT ![stateData] = @ + 1]
    /\ UNCHANGED <<engineVars, now, persistVars, stateData, snapshots, snapshotFiles,
                   recordSnapshots>>

\* _save_checkpoint: data = task.state_data.copy() keeps the reference of every
\* value; json.dump writes the values as they are now
SaveCheckpoint(step) ==
    /\ Len(snapshots) < MaxCheckpoints
    /\ snapshots' = Append(snapshots, [step |-> step, data |-> stateData])
    /\ snapshotFiles' = Append(snapshotFiles,
                               [step |-> step, data |-> Resolve(stateData)])
    /\ UNCHANGED <<engineVars, now, persistVars, dicts, stateData, recordSnapshots>>

\* _save_task: json.dump(task.to_dict()) writes every checkpoint with the
\* values its data refers to now
SaveTask ==
    /\ recordSnapshots' = [i \in 1..Len(snapshots) |->
                              [step |-> snapshots[i].step,
                               data |-> Resolve(snapshots[i].data)]]
    /\ UNCHANGED <<engineVars, now, persistVars, dicts, stateData, snapshots,
                   snapshotFiles>>

\* _restore_from_checkpoint: task.state_data = latest_checkpoint.data.copy()
RestoreFromCheckpoint ==
    /\ snapshots # << >>
    /\ stateData' = snapshots[Len(snapshots)].data
    /\ UNCHANGED <<engineVars, now, persistVars, dicts, snapshots, snapshotFiles,
                   recordSnapshots>>

NestInit ==
    /\ dicts = << >>
    /\ stateData = 0
    /\ snapshots = << >>
    /\ snapshotFiles = << >>
    /\ recordSnapshots = << >>

NestNext ==
    \/ ExampleStep1
    \/ ExampleStep2
    \/ \E step \in 0..(NumSteps - 1) : SaveCheckpoint(step)
    \/ SaveTask
    \/ RestoreFromCheckpoint

\* ------------------------------------------------------------ persistence
\* The state payloads and task rows callers hand to the persistence manager:
\* {} ("empty"), a dict with string keys ("a"), a dict with integer keys ("intkey")
Payloads == {"empty", "a"}
StatePayloads == Payloads \cup {"intkey"}

\* bool(state_data): an empty dict is false
Truthy(p) == p # "empty"

\* json.load(json.dump(state_data)): the keys of a dict come back as strings
\* (pickle, which the database uses, hands every payload back as it was)
Json(p) == IF p = "intkey" THEN "strkey" ELSE p
Statuses == {"pending", "in_progress", "checkpointed", "suspended", "completed",
             "failed", "interrupted"}
Resumable == {"pending", "in_progress", "checkpointed", "suspended", "interrupted"}

TaskData(status, completed_at) ==
    [status |-> status, completed_at |-> completed_at]

\* TaskPersistenceManager.save_task_state: database.save_task (INSERT OR REPLACE),
\* database.save_task_state (INSERT OR REPLACE), then the _state.json file
SaveTaskState(id, task_data, state_data) ==
    /\ dbTasks' = DictPut(dbTasks, id, task_data)
    /\ dbTaskState' = DictPut(dbTaskState, id, state_data)
    /\ stateFiles' = DictPut(stateFiles, id,
                             [task_data |-> task_data, state_data |-> Json(state_data),
                              mtime |-> now])
    /\ UNCHANGED <<engineVars, nestVars, now, dbCheckpoints, pklFiles, saves>>

\* A thread calls save_task_state: the call is about to make its first write
SaveTaskStateCalled(id, task_data, state_data) ==
    /\ Len(saves) < MaxThreads
    /\ saves' = Append(saves, [id |-> id, task_data |-> task_data,
                               state_data |-> state_data, pc |-> 1])
    /\ UNCHANGED <<engineVars, nestVars, now, dbTasks, dbTaskState, dbCheckpoints, stateFiles,
                   pklFiles>>

\* The k-th of these calls makes its next write: database.save_task (pc 1) and
\* database.save_task_state (pc 2), each under the database's lock, then the
\* _state.json file (pc 3), after which the call returns
SaveTaskStateStep(k) ==
    /\ k \in 1..Len(saves)
    /\ LET c == saves[k]
       IN  /\ dbTasks' = IF c.pc = 1 THEN DictPut(dbTasks, c.id, c.task_data)
                         ELSE dbTasks
           /\ dbTaskState' = IF c.pc = 2 THEN DictPut(dbTaskState, c.id, c.state_data)
                             ELSE dbTaskState
           /\ stateFiles' = IF c.pc = 3
                            THEN DictPut(stateFiles, c.id,
                                         [task_data |-> c.task_data,
                                          state_data |-> Json(c.state_data),
                                          mtime |-> now])
                            ELSE stateFiles
           /\ saves' = IF c.pc = 3 THEN DropAt(saves, k)
                       ELSE [saves EXCEPT ![k].pc = @ + 1]
    /\ UNCHANGED <<engineVars, nestVars, now, dbCheckpoints, pklFiles>>

\* TaskPersistenceManager.load_task_state that trusts the database alone
LoadTaskStateReturn_DatabaseOnly(id) ==
    IF id \in DOMAIN dbTasks /\ id \in DOMAIN dbTaskState /\ Truthy(dbTaskState[id])
    THEN {[task_data |-> dbTasks[id], state_data |-> dbTaskState[id]]}
    ELSE {}

\* TaskPersistenceManager.load_task_state: what it returns (None is the empty
\* set): the database's rows "if task_data and state_data", else the flat file
LoadTaskStateReturn(id) ==
    IF id \in DOMAIN dbTasks /\ id \in DOMAIN dbTaskState /\ Truthy(dbTaskState[id])
    THEN {[task_data |-> dbTasks[id], state_data |-> dbTaskState[id]]}
    ELSE IF id \in DOMAIN stateFiles
    THEN {[task_data |-> stateFiles[id].task_data,
           state_data |-> stateFiles[id].state_data]}
    ELSE {}

LoadTaskState(id) == UNCHANGED vars

\* save_task_state cut short (the process dies, or a write raises): after
\* database.save_task (at = 1) or after database.save_task_state (at = 2)
SaveTaskStateCut(id, task_data, state_data, at) ==
    /\ dbTasks' = DictPut(dbTasks, id, task_data)
    /\ dbTaskState' = IF at = 2 THEN DictPut(dbTaskState, id, state_data)
                      ELSE dbTaskState
    /\ UNCHANGED <<engineVars, nestVars, now, dbCheckpoints, stateFiles, pklFiles, saves>>

\* The statuses get_resumable_tasks keeps
ResumableKept == {"in_progress", "checkpointed", "suspended", "interrupted"}

\* TaskDatabase.get_active_tasks: SELECT ... WHERE status IN (...)
GetActiveTasks == {id \in DOMAIN dbTasks : dbTasks[id].status \in Resumable}

\* TaskPersistenceManager.get_resumable_tasks: the ids it returns
GetResumableTasksReturn ==
    LET resumable_ids == {id \in GetActiveTasks : dbTasks[id].status \in ResumableKept}
    IN  resumable_ids \cup
            {id \in (DOMAIN stateFiles) \ resumable_ids :
                stateFiles[id].task_data.status \in ResumableKept}

GetResumableTasks == UNCHANGED vars

\* created_at of the checkpoint rows is CURRENT_TIMESTAMP, in whole seconds
LastCreated ==
    Max({0} \cup {dbCheckpoints[i].created_at : i \in 1..Len(dbCheckpoints)})

\* TaskPersistenceManager.save_task_checkpoint: database.save_checkpoint
\* (INSERT, created_at = CURRENT_TIMESTAMP), then the .pkl file
SaveTaskCheckpointAt(id, step_number, state_data, created_at) ==
    /\ Len(dbCheckpoints) < MaxCheckpoints
    /\ dbCheckpoints' = Append(dbCheckpoints,
                               [task_id |-> id, step_number |-> step_number,
                                checkpoint_data |-> state_data,
                                created_at |-> created_at])
    /\ pklFiles' = DictPut(pklFiles, <<id, step_number>>,
                           [state_data |-> state_data, mtime |-> now])
    /\ UNCHANGED <<engineVars, nestVars, now, dbTasks, dbTaskState, stateFiles, saves>>

\* ... in a later second than the checkpoint rows there are
SaveTaskCheckpoint(id, step_number, state_data) ==
    SaveTaskCheckpointAt(id, step_number, state_data, LastCreated + 1)

\* ... within the second of the latest checkpoint row
SaveTaskCheckpointSameSecond(id, step_number, state_data) ==
    /\ dbCheckpoints # << >>
    /\ SaveTaskCheckpointAt(id, step_number, state_data, LastCreated)

\* TaskDatabase.load_latest_checkpoint: ORDER BY created_at DESC LIMIT 1 picks
\* any one of the rows that share the latest created_at
LoadLatestCheckpoint(id) ==
    LET mine == {i \in 1..Len(dbCheckpoints) : dbCheckpoints[i].task_id = id}
    IN  {dbCheckpoints[i] : i \in {k \in mine :
            \A m \in mine : dbCheckpoints[m].created_at <= dbCheckpoints[k].created_at}}

\* TaskPersistenceManager.load_task_checkpoint: the (step_number, state_data)
\* it can return (None is the empty set): the database first, else the .pkl
\* file with the highest step number
LoadTaskCheckpointReturn(id) ==
    IF LoadLatestCheckpoint(id) # {}
    THEN {<<r.step_number, r.checkpoint_data>> : r \in LoadLatestCheckpoint(id)}
    ELSE {<<k[2], pklFiles[k].state_data>> :
             k \in {x \in DOMAIN pklFiles :
                       /\ x[1] = id
                       /\ \A y \in DOMAIN pklFiles : y[1] = id => y[2] <= x[2]}}

LoadTaskCheckpoint(id) == UNCHANGED vars

\* TaskDatabase.cleanup_old_tasks: DELETE FROM tasks WHERE status = 'completed' AND
\* completed_at < cutoff (a NULL completed_at never compares below it)
RowsKept(days_old) ==
    {id \in DOMAIN dbTasks :
        ~(/\ dbTasks[id].status = "completed"
          /\ dbTasks[id].completed_at # NoTime
          /\ dbTasks[id].completed_at < now - days_old)}

\* DELETE FROM checkpoints WHERE task_id NOT IN (SELECT id FROM tasks)
CheckpointsKept(rows, ids) ==
    SelectSeq(rows, LAMBDA r : r.task_id \in ids)

\* TaskPersistenceManager.cleanup_old_states: unlink every *.json and *.pkl of
\* State_Logs whose mtime is before the cutoff, then database.cleanup_old_tasks
FilesKept(files, days_old) ==
    [k \in {x \in DOMAIN files : ~(files[x].mtime < now - days_old)} |-> files[k]]

CleanupOldStates(days_old) ==
    /\ stateFiles' = FilesKept(stateFiles, days_old)
    /\ pklFiles' = FilesKept(pklFiles, days_old)
    /\ dbTasks' = [id \in RowsKept(days_old) |-> dbTasks[id]]
    /\ dbCheckpoints' = CheckpointsKept(dbCheckpoints, RowsKept(days_old))
    /\ dbTaskState' = [id \in (DOMAIN dbTaskState) \cap RowsKept(days_old) |->
                          dbTaskState[id]]
    /\ UNCHANGED <<engineVars, nestVars, now, saves>>

PersistInit ==
    /\ dbTasks = << >>
    /\ dbTaskState = << >>
    /\ dbCheckpoints = << >>
    /\ stateFiles = << >>
    /\ pklFiles = << >>
    /\ saves = << >>

PersistNext ==
    \/ \E id \in TaskIds, st \in Statuses, p \in Payloads :
          SaveTaskState(id, TaskData(st, IF st = "completed" THEN now ELSE NoTime), p)
    \/ \E id \in TaskIds, n \in 1..(NumSteps - 1), p \in Payloads :
          SaveTaskCheckpoint(id, n, p)
    \/ \E d \in 0..MaxTime : CleanupOldStates(d)
    \/ GetResumableTasks
    \/ \E id \in TaskIds : LoadTaskState(id)
    \/ \E id \in TaskIds : LoadTaskCheckpoint(id)
    \/ Tick

Init == EngineInit /\ PersistInit /\ NestInit /\ now = 0

\* The engine
Spec == Init /\ [][EngineNext]_vars

\* An execute_task call that nothing interferes with: no suspend, no resume,
\* no interrupt, no kill
RunNext ==
    \/ \E id \in TaskIds : CreateTask(id)
    \/ \E id \in TaskIds : ExecuteTask(id)
    \/ \E j \in 1..MaxLoops, how \in {"ok", "raise"} : StepReturns(j, how)
    \/ Tick

SpecRun == Init /\ [][RunNext]_vars

\* Suspend and resume around steps that all succeed
SuspendNext ==
    \/ \E id \in TaskIds : CreateTask(id)
    \/ \E id \in TaskIds : ExecuteTask(id)
    \/ \E j \in 1..MaxLoops : StepReturns(j, "ok")
    \/ \E id \in TaskIds : SuspendTask(id)
    \/ \E id \in TaskIds : ResumeTask(id)
    \/ Tick

SpecSuspend == Init /\ [][SuspendNext]_vars

\* Checkpoints taken within one reading of the clock
ClockNext ==
    \/ \E id \in TaskIds : CreateTask(id)
    \/ \E id \in TaskIds : ExecuteTask(id)
    \/ \E j \in 1..MaxLoops, how \in {"ok", "interrupt"} : StepReturns(j, how)
    \/ \E id \in TaskIds : ResumeTask(id)
    \/ ClockStalls

SpecClock == Init /\ [][ClockNext]_vars

\* execute_task over a checkpoint store whose writes can fail
StoreFaultNext ==
    \/ \E id \in TaskIds : CreateTask(id)
    \/ \E id \in TaskIds : ExecuteTask(id)
    \/ \E j \in 1..MaxLoops, how \in {"ok", "store_error"} : StepReturns(j, how)
    \/ Tick

SpecStoreFault == Init /\ [][StoreFaultNext]_vars

\* execute_task calls whose awaited steps all come back: with a result, an
\* exception, a KeyboardInterrupt or a checkpoint write that raises
AllOutcomes == Outcomes \cup {"store_error"}

TerminationNext ==
    \/ \E id \in TaskIds : CreateTask(id)
    \/ \E id \in TaskIds : ExecuteTask(id)
    \/ \E j \in 1..MaxLoops, how \in AllOutcomes : StepReturns(j, how)
    \/ Tick

SpecTermination ==
    /\ Init
    /\ [][TerminationNext]_vars
    /\ WF_vars(\E j \in 1..MaxLoops, how \in AllOutcomes : StepReturns(j, how))

\* Checkpoints of a state_data that holds a dict
SpecNested == Init /\ [][NestNext]_vars

\* The persistence manager
SpecPersist == Init /\ [][PersistNext]_vars

\* The persistence manager with saves that are cut short
PersistCutNext ==
    \/ \E id \in TaskIds, st \in Statuses, p \in Payloads :
          SaveTaskState(id, TaskData(st, IF st = "completed" THEN now ELSE NoTime), p)
    \/ \E id \in TaskIds, st \in Statuses, p \in Payloads, at \in 1..2 :
          SaveTaskStateCut(id, TaskData(st, IF st = "completed" THEN now ELSE NoTime),
                           p, at)
    \/ GetResumableTasks
    \/ Tick

SpecPersistCut == Init /\ [][PersistCutNext]_vars

\* save_task_state called from several threads
PersistThreadsNext ==
    \/ \E id \in TaskIds, st \in {"in_progress", "completed"}, p \in Payloads :
          SaveTaskStateCalled(id, TaskData(st, IF st = "completed" THEN now ELSE NoTime),
                              p)
    \/ \E k \in 1..MaxThreads : SaveTaskStateStep(k)
    \/ \E id \in TaskIds : LoadTaskState(id)

SpecPersistThreads == Init /\ [][PersistThreadsNext]_vars

\* save_task_state and load_task_state over every kind of payload
RoundTripNext ==
    \/ \E id \in TaskIds, st \in Statuses, p \in StatePayloads :
          SaveTaskState(id, TaskData(st, IF st = "completed" THEN now ELSE NoTime), p)
    \/ \E id \in TaskIds : LoadTaskState(id)
    \/ \E d \in 0..MaxTime : CleanupOldStates(d)
    \/ Tick

SpecRoundTrip == Init /\ [][RoundTripNext]_vars

\* Checkpoints saved through the persistence manager, some within one second
PersistSecondNext ==
    \/ \E id \in TaskIds, n \in 1..(NumSteps - 1), p \in Payloads :
          SaveTaskCheckpoint(id, n, p)
    \/ \E id \in TaskIds, n \in 1..(NumSteps - 1), p \in Payloads :
          SaveTaskCheckpointSameSecond(id, n, p)
    \/ \E id \in TaskIds : LoadTaskCheckpoint(id)
    \/ Tick

SpecPersistSecond == Init /\ [][PersistSecondNext]_vars

\* ------------------------------------------------------------------ claims
\* The task as the engine sees it: the registry's object, else the stored record
View(id) == HeapLoaded(id)[RefOf(id)]

\* state_data after n steps that each ran once, in order
UninterruptedFinal(n) ==
    {Entry("effect", i, i) : i \in 0..(n - 1)}
        \cup {Entry("step_result", i, i) : i \in 0..(n - 1)}
        \cup {Entry("final_result", 0, n - 1)}

StrictlyIncreasing(steps) ==
    \A i, k \in 1..Len(steps) : i < k => steps[i] < steps[k]

StepsOf(cps) == [i \in 1..Len(cps) |-> cps[i].step]

\* C1: a task whose execute_task loop is killed after step m completed (no
\* handler runs) is, after the restart, accepted by resume_task, which restores
\* current_step = b, the last multiple of checkpoint_interval that is <= m.
C1_CrashResume ==
    [][\A id \in TaskIds :
          (/\ Restart
           /\ id \in DOMAIN tasks
           /\ \E j \in 1..Len(loops) : loops[j].ref = tasks[id]
           /\ heap[tasks[id]].current_step >= 1)
          => LET m == heap[tasks[id]].current_step - 1
                 b == (m \div checkpoint_interval) * checkpoint_interval
             IN  /\ ResumeAccepted(id)'
                 /\ Restored(View(id))'.current_step = b]_vars

\* C2: a failing invocation of a step ends the task as failed exactly when it is
\* the (max_retries + 1)-th invocation of that step by this execute_task call,
\* and execute_task then returns False.
C2_RetryBound ==
    [][\A j \in 1..Len(loops) :
          StepReturns(j, "raise")
          => LET o == StepOutcome(j, "raise")
                 task == heap[loops[j].ref]
             IN  /\ (o.task.status = "failed") <=> (loops[j].calls = task.max_retries + 1)
                 /\ (o.task.status = "failed") => (o.value = "False")]_vars

\* C3: whenever a step invocation succeeds, current_step advances by exactly 1
\* and retry_count is 0 afterwards.
C3_RetryReset ==
    [][\A j \in 1..Len(loops) :
          StepReturns(j, "ok")
          => /\ loops[j].ref \in DOMAIN heap'
             /\ heap'[loops[j].ref].current_step = heap[loops[j].ref].current_step + 1
             /\ heap'[loops[j].ref].retry_count = 0]_vars

\* C4: the step_index values of a task's checkpoints, in the order they were
\* written, are strictly increasing: in the task object, in the task record and
\* among the checkpoint files.
C4_CheckpointMonotonic ==
    /\ \A ref \in DOMAIN heap : StrictlyIncreasing(StepsOf(heap[ref].checkpoints))
    /\ \A id \in DOMAIN taskFiles : StrictlyIncreasing(StepsOf(taskFiles[id].checkpoints))
    /\ \A id \in TaskIds :
          StrictlyIncreasing(StepsOf(SelectSeq(checkpointFiles,
                                               LAMBDA c : c.task_id = id)))

\* C5: a task that was suspended and resumed on its way completes with the
\* state_data and result of an uninterrupted run.
C5_SuspendResumeRoundTrip ==
    \A id \in DOMAIN tasks :
        heap[tasks[id]].status = "completed"
        => /\ heap[tasks[id]].state_data = UninterruptedFinal(heap[tasks[id]].nsteps)
           /\ heap[tasks[id]].result =
                  {Entry("final_result", 0, heap[tasks[id]].nsteps - 1)}

\* C6: once suspend_task has set a task suspended, the step in flight is the
\* last one its execute_task loop runs: when it returns the coroutine ends and
\* the status is still suspended.
C6_SuspendStopsLoop ==
    [][\A j \in 1..Len(loops) :
          (/\ heap[loops[j].ref].status = "suspended"
           /\ \E how \in Outcomes : StepReturns(j, how))
          => /\ Len(loops') < Len(loops)
             /\ loops[j].ref \in DOMAIN heap'
             /\ heap'[loops[j].ref].status = "suspended"]_vars

\* C7: execute_task on a completed task returns True, starts no step and leaves
\* the task, the task files, the checkpoint files and the active list as they were.
C7_IdempotentReexecution ==
    /\ [](\A id \in TaskIds :
            (Known(id) /\ View(id).status = "completed")
            => ExecuteTaskReturn(id) = "True")
    /\ [][\A id \in TaskIds :
            (/\ Known(id)
             /\ View(id).status = "completed"
             /\ ExecuteTask(id))
            => /\ View(id)' = View(id)
               /\ UNCHANGED <<loops, taskFiles, checkpointFiles, active_tasks>>]_vars

C7_Witness ==
    \E id \in DOMAIN tasks :
        /\ heap[tasks[id]].status = "completed"
        /\ heap[tasks[id]].completed_at < now
        /\ heap[tasks[id]].nsteps = NumSteps

\* C8: an execute_task run whose steps all succeed ends completed with
\* current_step = N, result = state_data['final_result'] and floor(N / K)
\* checkpoints, the j-th with step = j * K.
C8_UninterruptedRun ==
    \A id \in DOMAIN tasks :
        LET task == heap[tasks[id]]
            K == checkpoint_interval
        IN  (task.status = "completed" /\ task.error = "None")
            => /\ task.current_step = task.nsteps
               /\ task.result = {e \in task.state_data : e.key = "final_result"}
               /\ task.result # {}
               /\ Len(task.checkpoints) = task.nsteps \div K
               /\ \A j \in 1..Len(task.checkpoints) : task.checkpoints[j].step = j * K

\* C9: cleanup_completed_tasks(d), called in any reachable state, removes from
\* the registry and from the task files exactly the tasks that are completed
\* with completed_at < now - d; every other task stays where it was.
C9_CleanupBoundary ==
    \A d \in 0..MaxTime, id \in TaskIds :
        Known(id)
        => IF /\ View(id).status = "completed"
              /\ View(id).completed_at < now - d
           THEN /\ id \notin DOMAIN CleanedTasks(d)
                /\ id \notin DOMAIN CleanedFiles(d)
           ELSE /\ (id \in DOMAIN CleanedTasks(d)) = (id \in DOMAIN tasks)
                /\ (id \in DOMAIN CleanedFiles(d)) = (id \in DOMAIN taskFiles)

\* C10: cleanup_old_states(d) leaves the task row, the state row, the flat
\* snapshot file, the checkpoint rows and the checkpoint files of every task
\* whose status is failed or resumable as they were.
StoredStatus(id) ==
    IF id \in DOMAIN dbTasks THEN dbTasks[id].status
    ELSE IF id \in DOMAIN stateFiles THEN stateFiles[id].task_data.status
    ELSE "None"

Restrict(f, S) == [x \in (DOMAIN f) \cap S |-> f[x]]

C10_RetentionKeepsActive ==
    [][\A d \in 0..MaxTime :
          CleanupOldStates(d)
          => \A id \in TaskIds :
                StoredStatus(id) \in Resumable \cup {"failed"}
                => /\ Restrict(dbTasks', {id}) = Restrict(dbTasks, {id})
                   /\ Restrict(dbTaskState', {id}) = Restrict(dbTaskState, {id})
                   /\ Restrict(stateFiles', {id}) = Restrict(stateFiles, {id})
                   /\ Restrict(pklFiles', {id} \X (0..NumSteps))
                          = Restrict(pklFiles, {id} \X (0..NumSteps))
                   /\ SelectSeq(dbCheckpoints', LAMBDA r : r.task_id = id)
                          = SelectSeq(dbCheckpoints, LAMBDA r : r.task_id = id)]_vars

\* C11: every task object the engine holds has 0 <= current_step <= len(steps).
C11_CurrentStepInRange ==
    \A ref \in DOMAIN heap :
        /\ 0 <= heap[ref].current_step
        /\ heap[ref].current_step <= heap[ref].nsteps

\* C12: suspend_task on a task that is not in_progress, and resume_task on a task
\* that is neither suspended nor interrupted, return False, start no step and
\* leave the task, the active list, the task files and the checkpoint files as
\* they were.
C12_InvalidTransitionNoMutation ==
    /\ [](\A id \in TaskIds :
            Known(id)
            => /\ View(id).status # "in_progress" => SuspendTaskReturn(id) = "False"
               /\ View(id).status \notin {"suspended", "interrupted"}
                     => ResumeTaskReturn(id) = "False")
    /\ [][\A id \in TaskIds :
            (/\ Known(id)
             /\ \/ View(id).status # "in_progress" /\ SuspendTask(id)
                \/ View(id).status \notin {"suspended", "interrupted"} /\ ResumeTask(id))
            => /\ View(id)' = View(id)
               /\ UNCHANGED <<loops, taskFiles, checkpointFiles, active_tasks>>]_vars

C12_Witness ==
    \E id \in DOMAIN tasks :
        /\ heap[tasks[id]].status = "failed"
        /\ heap[tasks[id]].checkpoints # << >>
        /\ InList(active_tasks, id)

\* C13: when resume_task restores a suspended or interrupted task that has
\* checkpoints, the checkpoint with the latest timestamp is the one with the
\* greatest step among the task's checkpoints, and the restore sets current_step
\* and state_data to that checkpoint's step and data.
C13_RestoresGreatestStep ==
    \A id \in TaskIds :
        (/\ ResumeAccepted(id)
         /\ View(id).checkpoints # << >>)
        => LET cps == View(id).checkpoints
               c == LatestCheckpoint(cps)
           IN  /\ \A i \in 1..Len(cps) : cps[i].step <= c.step
               /\ Restored(View(id)).current_step = c.step
               /\ Restored(View(id)).state_data = c.data

\* C14: a KeyboardInterrupt in the step loop ends execute_task with False, the
\* task interrupted, current_step where it was, one more checkpoint (in the
\* task and in a checkpoint file) holding that current_step and the state_data
\* of that moment, and the task record saved.
C14_InterruptCheckpoint ==
    [][\A j \in 1..Len(loops) :
          StepReturns(j, "interrupt")
          => LET id == loops[j].task_id
                 task == heap[loops[j].ref]
                 rec == taskFiles'[id]
                 n == Len(task.checkpoints) + 1
             IN  /\ StepOutcome(j, "interrupt").value = "False"
                 /\ Len(loops') = Len(loops) - 1
                 /\ rec.status = "interrupted"
                 /\ rec.current_step = task.current_step
                 /\ Len(rec.checkpoints) = n
                 /\ SubSeq(rec.checkpoints, 1, n - 1) = task.checkpoints
                 /\ rec.checkpoints[n].step = task.current_step
                 /\ rec.checkpoints[n].data = task.state_data
                 /\ rec.state_data = task.state_data
                 /\ Len(checkpointFiles') = Len(checkpointFiles) + 1
                 /\ checkpointFiles'[Len(checkpointFiles')].task_id = id
                 /\ checkpointFiles'[Len(checkpointFiles')].step = task.current_step
                 /\ checkpointFiles'[Len(checkpointFiles')].data = task.state_data
                 /\ loops[j].ref \in DOMAIN heap' => ToDict(heap'[loops[j].ref]) = rec]_vars

C14_Witness ==
    \E id \in DOMAIN tasks :
        LET task == heap[tasks[id]]
        IN  /\ task.status = "interrupted"
            /\ task.current_step >= 1
            /\ task.checkpoints # << >>
            /\ task.checkpoints[Len(task.checkpoints)].step = task.current_step
            /\ id \in DOMAIN taskFiles
            /\ taskFiles[id] = ToDict(task)

\* C15: a task id is in the list list_active_tasks reports if and only if the
\* task's status is in_progress.
C15_ActiveIffInProgress ==
    \A id \in DOMAIN tasks :
        InList(ListActiveTasks, id) <=> heap[tasks[id]].status = "in_progress"

\* C16: the status and current_step get_task_status reports are those of the
\* task's record in the task files.
C16_StatusIsDurable ==
    \A id \in TaskIds :
        GetTaskStatusReturn(id).found
        => /\ id \in DOMAIN taskFiles
           /\ GetTaskStatusReturn(id).status = taskFiles[id].status
           /\ GetTaskStatusReturn(id).current_step = taskFiles[id].current_step

\* C17: get_resumable_tasks returns the id of every task row whose status is
\* pending, in_progress, checkpointed, suspended or interrupted, and the id of
\* no task row whose status is completed or failed.
C17_ResumableScan ==
    \A id \in DOMAIN dbTasks :
        /\ dbTasks[id].status \in Resumable => id \in GetResumableTasksReturn
        /\ dbTasks[id].status \in {"completed", "failed"}
              => id \notin GetResumableTasksReturn

\* C18: a flat snapshot file contributes an id to get_resumable_tasks only when
\* the task has no row in the database; a task whose row says completed or
\* failed is not returned whatever its flat snapshot says.
C18_Reconciliation ==
    \A id \in GetResumableTasksReturn :
        id \in DOMAIN dbTasks => dbTasks[id].status \in Resumable

\* C19: when the periodic checkpoint write raises, execute_task ends with an
\* error for its caller; retry_count stays as it was and the step that had
\* succeeded is not invoked again.
C19_StoreErrorSurfaced ==
    [][\A j \in 1..Len(loops) :
          StepReturns(j, "store_error")
          => LET o == StepOutcome(j, "store_error")
                 task == heap[loops[j].ref]
             IN  /\ ~o.inflight
                 /\ o.value # "True"
                 /\ Len(loops') = Len(loops) - 1
                 /\ o.task.retry_count = task.retry_count]_vars

\* C20: when the periodic checkpoint write after step i raises, current_step is
\* not advanced past i and every checkpoint in the task's checkpoint list has
\* its checkpoint file.
C20_NoFalseDurability ==
    [][\A j \in 1..Len(loops) :
          StepReturns(j, "store_error")
          => LET ref == loops[j].ref
                 id == loops[j].task_id
             IN  /\ ref \in DOMAIN heap'
                 /\ heap'[ref].current_step <= heap[ref].current_step
                 /\ \A i \in 1..Len(heap'[ref].checkpoints) :
                       \E k \in 1..Len(checkpointFiles') :
                          /\ checkpointFiles'[k].task_id = id
                          /\ checkpointFiles'[k].step = heap'[ref].checkpoints[i].step
                          /\ checkpointFiles'[k].timestamp =
                                 heap'[ref].checkpoints[i].timestamp]_vars

\* C21: a task whose execute_task loop is cut by a kill of the process, its
\* stored record being neither completed nor failed, is after the restart
\* returned by get_resumable_tasks (the list resume_interrupted_tasks walks),
\* is interrupted when loaded, and is accepted by resume_task.
C21_RestartRecovery ==
    [][\A id \in TaskIds :
          (/\ Restart
           /\ id \in DOMAIN tasks
           /\ \E j \in 1..Len(loops) : loops[j].ref = tasks[id]
           /\ id \in DOMAIN taskFiles
           /\ taskFiles[id].status \notin {"completed", "failed"})
          => /\ id \in GetResumableTasksReturn'
             /\ View(id)'.status = "interrupted"
             /\ ResumeAccepted(id)']_vars

\* A task id no task was ever given
NoSuchTask == NumTasks + 1

\* Whether the operation finds the task: suspend_task looks in the registry,
\* resume_task and get_task_status also load the stored record
SuspendFinds(id) == id \in DOMAIN tasks
ResumeFinds(id) == Known(id)
StatusFinds(id) == Known(id)

\* C22: what resume_task, get_task_status and suspend_task return for an id no
\* task has differs from what they return for a task that exists but is in
\* the wrong state, and the three agree on whether an id is known.
C22_NotFoundDistinct ==
    \A id \in TaskIds :
        Known(id)
        => /\ GetTaskStatusReturn(id) # GetTaskStatusReturn(NoSuchTask)
           /\ ~ResumeAccepted(id)
                 => ResumeTaskReturn(id) # ResumeTaskReturn(NoSuchTask)
           /\ (SuspendFinds(id) /\ View(id).status # "in_progress")
                 => SuspendTaskReturn(id) # SuspendTaskReturn(NoSuchTask)
           /\ SuspendFinds(id) = ResumeFinds(id)
           /\ ResumeFinds(id) = StatusFinds(id)

C24_LatestCheckpoint ==
    \A id \in TaskIds :
        LET mine == SelectSeq(dbCheckpoints, LAMBDA r : r.task_id = id)
        IN  /\ mine # << >>
                => LoadTaskCheckpointReturn(id) =
                       {<<mine[Len(mine)].step_number, mine[Len(mine)].checkpoint_data>>}
            /\ LoadTaskCheckpointReturn(id) = {}
                => /\ mine = << >>
                   /\ \A k \in DOMAIN pklFiles : k[1] # id

\* C25: every task id that owns a checkpoint file still has a task record; in
\* particular cleanup_completed_tasks leaves no checkpoint file of a task it
\* removed.
C25_NoOrphanCheckpoints ==
    \A k \in 1..Len(checkpointFiles) :
        checkpointFiles[k].task_id \in DOMAIN taskFiles

\* The step indices a state_data holds entries of one kind for
IndicesOf(d, k) == {e.idx : e \in {x \in d : x.key = k}}

\* C26: the checkpoint suspend_task writes has step = the number of steps that
\* have completed, and its data holds the effects of exactly the steps
\* 0..step-1: nothing of a step that is in flight.
C26_SuspendSnapshotClean ==
    [][\A id \in TaskIds :
          (SuspendTaskReturn(id) = "True" /\ SuspendTask(id))
          => LET cps == heap'[tasks[id]].checkpoints
                 c == cps[Len(cps)]
             IN  /\ Len(cps) = Len(heap[tasks[id]].checkpoints) + 1
                 /\ IndicesOf(c.data, "step_result") = 0..(c.step - 1)
                 /\ IndicesOf(c.data, "effect") = 0..(c.step - 1)]_vars

\* The step a restore of the task would continue from
RestorePosition(task) ==
    IF task.checkpoints = << >> THEN 0 ELSE LatestCheckpoint(task.checkpoints).step

\* C27: while an execute_task loop runs, current_step is at most
\* checkpoint_interval - 1 ahead of the step a restore would continue from.
C27_BoundedStaleness ==
    \A j \in 1..Len(loops) :
        heap[loops[j].ref].current_step - RestorePosition(heap[loops[j].ref])
            <= checkpoint_interval - 1

\* C30: when the step loop has written a periodic checkpoint and goes on to the
\* next step, the task's status is checkpointed.
C30_CheckpointedStatus ==
    [][\A j \in 1..Len(loops) :
          (/\ CheckpointDue(heap[loops[j].ref], checkpoint_interval)
           /\ StepOutcome(j, "ok").inflight
           /\ StepReturns(j, "ok"))
          => heap'[loops[j].ref].status = "checkpointed"]_vars

\* C28: within an execute_task call the step invoked after a successful step i
\* is step i+1, the call completes only after the last step, and a failed step
\* leaves current_step as it was and is invoked again at the same index.
C28_SequentialSteps ==
    [][\A j \in 1..Len(loops) :
          LET task == heap[loops[j].ref]
              ok == StepOutcome(j, "ok")
              failed == StepOutcome(j, "raise")
          IN  /\ StepReturns(j, "ok")
                 => IF ok.inflight THEN ok.fn = loops[j].fn + 1
                    ELSE loops[j].fn = task.nsteps - 1
              /\ StepReturns(j, "raise")
                 => /\ failed.task.current_step = task.current_step
                    /\ failed.inflight => failed.fn = loops[j].fn]_vars

\* C29: once no save_task_state call for a task is in flight, the task row,
\* the state row and the flat snapshot file of the task hold the values of one
\* and the same call.
C29_RepresentationsAgree ==
    \A id \in DOMAIN dbTasks :
        (\A k \in 1..Len(saves) : saves[k].id # id)
        => /\ id \in DOMAIN dbTaskState
           /\ id \in DOMAIN stateFiles
           /\ stateFiles[id].task_data = dbTasks[id]
           /\ stateFiles[id].state_data = Json(dbTaskState[id])

\* The result execute_task derives on completion
CompletionResult(task) ==
    Get(task.state_data, "final_result", 0, "Task completed successfully")

\* C31: for every task object and every stored task record, result is set iff
\* the status is completed, it is then state_data['final_result'] or else the
\* default message, and completed_at is set iff the status is completed.
C31_ResultIffCompleted ==
    /\ \A ref \in DOMAIN heap :
          /\ (heap[ref].result # {}) <=> (heap[ref].status = "completed")
          /\ (heap[ref].completed_at # NoTime) <=> (heap[ref].status = "completed")
          /\ heap[ref].status = "completed"
                => heap[ref].result = CompletionResult(heap[ref])
    /\ \A id \in DOMAIN taskFiles :
          /\ (taskFiles[id].result # {}) <=> (taskFiles[id].status = "completed")
          /\ (taskFiles[id].completed_at # NoTime) <=> (taskFiles[id].status = "completed")
          /\ taskFiles[id].status = "completed"
                => taskFiles[id].result = CompletionResult(taskFiles[id])

\* The fields of a task that a terminal status freezes
Frozen(task) ==
    <<task.status, task.current_step, task.retry_count, task.state_data,
      task.checkpoints>>

\* C33: once a task object is completed or failed, no call and no loop that is
\* still running changes its status, current_step, retry_count, state_data or
\* checkpoints or invokes one of its steps, and execute_task on a failed task
\* returns False.
C33_TerminalAbsorbing ==
    /\ [](\A id \in TaskIds :
            (Known(id) /\ View(id).status = "failed") => ExecuteTaskReturn(id) = "False")
    /\ [][\A ref \in DOMAIN heap :
            heap[ref].status \in {"completed", "failed"}
            => /\ ref \in DOMAIN heap' => Frozen(heap'[ref]) = Frozen(heap[ref])
               /\ \A j \in 1..Len(loops') :
                     loops'[j].ref = ref
                     => /\ j \in 1..Len(loops)
                        /\ loops[j] = loops'[j]]_vars

\* C34: a completed task has a result of every step 0..N-1 it was created
\* with, also when it was suspended or interrupted, loaded by a new process
\* and resumed.
C34_CompletedRanAllSteps ==
    \A id \in TaskIds :
        (Known(id) /\ View(id).status = "completed")
        => IndicesOf(View(id).state_data, "step_result") = 0..(NumSteps - 1)

\* An execute_task loop of the task is awaiting a step
Running(id) == \E j \in 1..Len(loops) : loops[j].task_id = id

\* C35: a task that is suspended or interrupted while none of its loops runs
\* has a checkpoint, and its latest checkpoint holds current_step and
\* state_data; resume_task then neither restarts from step 0 nor moves
\* current_step backward.
C35_PausedHasCheckpoint ==
    \A id \in TaskIds :
        (/\ Known(id)
         /\ View(id).status \in {"suspended", "interrupted"}
         /\ ~Running(id))
        => /\ View(id).checkpoints # << >>
           /\ LatestCheckpoint(View(id).checkpoints).step = View(id).current_step
           /\ LatestCheckpoint(View(id).checkpoints).data = View(id).state_data
           /\ Restored(View(id)).current_step >= View(id).current_step

\* The fields of a task that its stored record carries
Durable(task) ==
    <<task.status, task.current_step, task.retry_count, task.state_data,
      task.error, task.result, task.checkpoints>>

C38_RetryCountBounds ==
    /\ [](\A ref \in DOMAIN heap :
            /\ 0 <= heap[ref].retry_count
            /\ heap[ref].retry_count <= heap[ref].max_retries)
    /\ [][\A ref \in DOMAIN heap :
            (ref \in DOMAIN heap' /\ heap'[ref].retry_count # heap[ref].retry_count)
            => /\ heap'[ref].retry_count = heap[ref].retry_count + 1
               /\ \E j \in 1..Len(loops) :
                     /\ loops[j].ref = ref
                     /\ StepReturns(j, "raise")
                     /\ StepOutcome(j, "raise").inflight]_vars

C39_DatabaseIsPrimary ==
    \A id \in TaskIds :
        /\ (id \in DOMAIN dbTasks /\ id \in DOMAIN dbTaskState)
              => LoadTaskStateReturn(id) =
                     {[task_data |-> dbTasks[id], state_data |-> dbTaskState[id]]}
        /\ LoadTaskStateReturn(id) = {}
              => /\ id \notin DOMAIN stateFiles
                 /\ ~(id \in DOMAIN dbTasks /\ id \in DOMAIN dbTaskState)

\* C32: the snapshot of a checkpoint stays what it was when the checkpoint was
\* created (what its checkpoint file holds): in the task object, and in the
\* task record whenever that is written.
C32_CheckpointsImmutable ==
    /\ \A i \in 1..Len(snapshots) :
          /\ snapshots[i].step = snapshotFiles[i].step
          /\ Resolve(snapshots[i].data) = snapshotFiles[i].data
    /\ \A i \in 1..Len(recordSnapshots) : recordSnapshots[i] = snapshotFiles[i]

====
